---- MODULE Spec2Model ----
(***************************************************************************)
(* Model of textwidth-rs (src/lib.rs): a Context owns an Xlib display      *)
(* connection and one font resource (XFontSet or XFontStruct), is built by *)
(* Context::new with a font-set -> single-font fallback, answers width     *)
(* queries and releases both resources on Drop.                            *)
(*                                                                         *)
(* Xlib is the environment.  Its state (open connections, live font        *)
(* resources, outstanding missing-charset lists) is the record `xs`; every *)
(* Xlib call the code makes is an operator from an Xlib state to an Xlib   *)
(* state that also appends the call to a log, so that a handler is the     *)
(* composition of its calls in program order.                              *)
(***************************************************************************)
EXTENDS Integers, Sequences, FiniteSets

\* ------------------------------------------------------------------ bounds
MaxCtx == 2
MaxClients == 2
MaxFonts == 2
MaxSetup == 2
MaxThreads == 2

\* --------------------------------------------------------------- constants
NULL == 0
Limb == 65536

Slots == 1..MaxCtx
DpyIds == 1..MaxClients
Threads == 1..MaxThreads
FontIds == 1..MaxFonts

\* Strings are sequences of bytes.  The font names callers pass: names the
\* server resolves, names it does not, and names with an embedded NUL.
Names == {<<>>, <<1>>, <<1, 1>>, <<2>>, <<2, 1>>, <<2, 2>>, <<0>>, <<1, 0>>}

\* The texts callers measure: the empty text, NUL-free texts, and texts with
\* an embedded NUL.
Texts == {<<>>, <<1>>, <<2>>, <<1, 2>>, <<0, 1>>, <<1, 0>>}

\* The texts of the queries that threads run side by side.
ConcTexts == {<<1>>, <<2>>, <<1, 0>>}

\* Long texts are runs of one byte, given by their byte length hi * 2^16 + lo:
\* a few bytes, 2^31 bytes and a few more, 2^32 bytes and a few more.
RunTexts ==
  {[byte |-> b, hi |-> hi, lo |-> lo] :
     b \in {0, 1}, hi \in {0, 32768, 65536}, lo \in {0, 1, 2}}

\* The literal of Context::with_misc, "-misc-fixed-*-*-*-*-*-*-*-*-*-*-*-*".
MiscName ==
  <<45, 109, 105, 115, 99, 45, 102, 105, 120, 101, 100,
    45, 42, 45, 42, 45, 42, 45, 42, 45, 42, 45, 42,
    45, 42, 45, 42, 45, 42, 45, 42, 45, 42, 45, 42>>

\* ------------------------------------------------- the display server's fonts
\* Names XCreateFontSet resolves, names XLoadQueryFont resolves, and names for
\* which XCreateFontSet reports a missing-charset list.  Every combination the
\* fallback distinguishes occurs: <<1>> and the misc name resolve both ways,
\* <<1,1>> only as a font set, <<2>> and <<2,1>> only as a single font,
\* <<>> and <<2,2>> not at all; a list is reported with a font set (<<1,1>>),
\* with a single font (<<2,1>>) and with no font (<<2,2>>).
FontSetNames == {<<1>>, <<1, 1>>, MiscName}
XFontNames == {<<1>>, <<2>>, <<2, 1>>, MiscName}
MissingNames == {<<1, 1>>, <<2, 1>>, <<2, 2>>}

\* The glyph metrics the server loads for a name: one of two tables.
Metric(name) == IF name \in {<<1, 1>>, <<2, 1>>} THEN 2 ELSE 1

\* Advance width of one byte in a metrics table (XCharStruct.width is a signed
\* short: a glyph may have a negative advance).
CharWidth(metric, b) ==
  IF metric = 1 THEN (IF b = 0 THEN 4 ELSE IF b = 1 THEN 6 ELSE 0 - 3)
  ELSE (IF b = 0 THEN 4 ELSE 5 + b)

RECURSIVE SumWidth(_, _)
SumWidth(metric, bytes) ==
  IF bytes = <<>> THEN 0
  ELSE CharWidth(metric, Head(bytes)) + SumWidth(metric, Tail(bytes))

\* ------------------------------------------------------------ CString::new
HasNul(s) == \E i \in 1..Len(s) : s[i] = 0

\* The buffer CString::as_ptr points to: the bytes followed by the terminator.
as_ptr(s) == Append(s, 0)

\* --------------------------------------------------------- integer casts
\* A u64 is four 16-bit limbs, least significant first.
u16_as_u64(w) == <<w % Limb, 0, 0, 0>>

\* i32 -> u64 sign-extends.
i32_as_u64(v) ==
  <<v % Limb, (v \div Limb) % Limb,
    IF v < 0 THEN Limb - 1 ELSE 0, IF v < 0 THEN Limb - 1 ELSE 0>>

U64Zero == <<0, 0, 0, 0>>

\* ------------------------------------------------------------------- Xlib
\* An Xlib state: conns = open Display pointers, fonts = live font resources
\* [h, kind, dpy, metric], lists = missing-charset lists not yet freed,
\* log = the calls made so far by the running handler, bad = some call was
\* given a closed display or a released font (undefined behaviour).
Call(f, d, h, n) == [f |-> f, d |-> d, h |-> h, n |-> n]

Logged(x, c) == [x EXCEPT !.log = Append(@, c)]

FontOf(x, kind, h) == {r \in x.fonts : r.h = h /\ r.kind = kind}

FontLive(x, kind, h) ==
  \E r \in FontOf(x, kind, h) : r.dpy \in x.conns

\* XOpenDisplay(NULL) returning d (NULL when no connection could be made).
XOpenDisplay(x, d) ==
  Logged(IF d = NULL THEN x ELSE [x EXCEPT !.conns = @ \cup {d}],
         Call("XOpenDisplay", d, NULL, 0))

\* XCreateFontSet(dpy, name, &missing, &missing_len, NULL); h is the handle the
\* allocator would hand out (NULL when it has none).
FontSetReturned(name, h) == IF name \in FontSetNames THEN h ELSE NULL

MissingReturned(name) == name \in MissingNames

XCreateFontSet(x, d, name, h) ==
  LET fs == FontSetReturned(name, h)
      x1 == IF fs = NULL THEN x
            ELSE [x EXCEPT !.fonts =
                    @ \cup {[h |-> fs, kind |-> "FontSet", dpy |-> d, metric |-> Metric(name)]}]
      x2 == IF MissingReturned(name) THEN [x1 EXCEPT !.lists = @ + 1] ELSE x1
      x3 == IF d \in x.conns THEN x2 ELSE [x2 EXCEPT !.bad = TRUE]
  IN Logged(x3, Call("XCreateFontSet", d, fs, 0))

XFreeStringList(x) ==
  Logged(IF x.lists > 0 THEN [x EXCEPT !.lists = @ - 1] ELSE [x EXCEPT !.bad = TRUE],
         Call("XFreeStringList", NULL, NULL, 0))

XFontReturned(name, h) == IF name \in XFontNames THEN h ELSE NULL

XLoadQueryFont(x, d, name, h) ==
  LET xf == XFontReturned(name, h)
      x1 == IF xf = NULL THEN x
            ELSE [x EXCEPT !.fonts =
                    @ \cup {[h |-> xf, kind |-> "XFont", dpy |-> d, metric |-> Metric(name)]}]
      x2 == IF d \in x.conns THEN x1 ELSE [x1 EXCEPT !.bad = TRUE]
  IN Logged(x2, Call("XLoadQueryFont", d, xf, 0))

XCloseDisplay(x, d) ==
  Logged(IF d \in x.conns THEN [x EXCEPT !.conns = @ \ {d}] ELSE [x EXCEPT !.bad = TRUE],
         Call("XCloseDisplay", d, NULL, 0))

FreeFontOfKind(x, fn, kind, d, h) ==
  Logged(IF FontLive(x, kind, h) /\ d \in x.conns
           THEN [x EXCEPT !.fonts = @ \ FontOf(x, kind, h)]
           ELSE [x EXCEPT !.fonts = @ \ FontOf(x, kind, h), !.bad = TRUE],
         Call(fn, d, h, 0))

XFreeFontSet(x, d, h) == FreeFontOfKind(x, "XFreeFontSet", "FontSet", d, h)

XFreeFont(x, d, h) == FreeFontOfKind(x, "XFreeFont", "XFont", d, h)

\* The first n bytes at p, as the measuring calls read them.
Measured(p, n) == SubSeq(p, 1, n)

\* A measuring call reads the font resource; it changes nothing but the log.
Measure(x, fn, kind, h, n) ==
  Logged(IF FontLive(x, kind, h) THEN x ELSE [x EXCEPT !.bad = TRUE],
         Call(fn, NULL, h, n))

\* What a measuring call reports for the font h: the sum of the advances of
\* the bytes it reads (0 stands for the arbitrary result of reading a released
\* font, which sets bad).
Advance(x, kind, h, p, n) ==
  IF FontOf(x, kind, h) = {} THEN 0
  ELSE LET r == CHOOSE r \in FontOf(x, kind, h) : TRUE
       IN SumWidth(r.metric, Measured(p, n))

\* XmbTextExtents(fontset, p, n, NULL, &rectangle): rectangle.width, an
\* unsigned short.
XmbTextExtents(x, h, n) == Measure(x, "XmbTextExtents", "FontSet", h, n)

rectangle_width(x, h, p, n) == Advance(x, "FontSet", h, p, n) % Limb

\* XTextWidth(xfont, p, n), a signed int.
XTextWidth(x, h, n) == Measure(x, "XTextWidth", "XFont", h, n)

XTextWidthReturned(x, h, p, n) == Advance(x, "XFont", h, p, n)

\* ------------------------------------------------------------ the library
Ok(v) == [tag |-> "Ok", v |-> v]
Err(tag, v) == [tag |-> tag, v |-> v]

FontSet(display, fontset) ==
  [variant |-> "FontSet", display |-> display, font |-> fontset]
XFont(display, xfont) ==
  [variant |-> "XFont", display |-> display, font |-> xfont]
NoCtx == [variant |-> "None", display |-> NULL, font |-> NULL]

\* A fallback that forgets the connection when no font is found.
new_fallback_leak(x, name, dpy, h) ==
  LET x1 == XLoadQueryFont(x, dpy, name, h)
      xfont == XFontReturned(name, h)
  IN IF xfont = NULL
       THEN [res |-> Err("CouldNotLoadFont", name), x |-> x1]
       ELSE [res |-> Ok(XFont(dpy, xfont)), x |-> x1]

\* A fallback that closes the connection on both of its paths.
new_fallback_closing(x, name, dpy, h) ==
  LET x1 == XLoadQueryFont(x, dpy, name, h)
      xfont == XFontReturned(name, h)
  IN IF xfont = NULL
       THEN [res |-> Err("CouldNotLoadFont", name), x |-> XCloseDisplay(x1, dpy)]
       ELSE [res |-> Ok(XFont(dpy, xfont)), x |-> XCloseDisplay(x1, dpy)]

\* Context::new after XCreateFontSet returned NULL: the single-font fallback.
new_fallback(x, name, dpy, h) ==
  LET x1 == XLoadQueryFont(x, dpy, name, h)
      xfont == XFontReturned(name, h)
  IN IF xfont = NULL
       THEN [res |-> Err("CouldNotLoadFont", name), x |-> XCloseDisplay(x1, dpy)]
       ELSE [res |-> Ok(XFont(dpy, xfont)), x |-> x1]

\* A resolution that tries the single font first and the font set second.
new_resolve_xfont_first(x, name, dpy, h) ==
  LET x1 == XLoadQueryFont(x, dpy, name, h)
      xfont == XFontReturned(name, h)
  IN IF xfont # NULL
       THEN [res |-> Ok(XFont(dpy, xfont)), x |-> x1]
       ELSE LET x2 == XCreateFontSet(x1, dpy, name, h)
                fontset == FontSetReturned(name, h)
                x3 == IF MissingReturned(name) THEN XFreeStringList(x2) ELSE x2
            IN IF fontset # NULL
                 THEN [res |-> Ok(FontSet(dpy, fontset)), x |-> x3]
                 ELSE [res |-> Err("CouldNotLoadFont", name),
                       x |-> XCloseDisplay(x3, dpy)]

\* A resolution that never releases the missing-charset list.
new_resolve_keep_list(x, name, dpy, h) ==
  LET x1 == XCreateFontSet(x, dpy, name, h)
      fontset == FontSetReturned(name, h)
  IN IF fontset # NULL
       THEN [res |-> Ok(FontSet(dpy, fontset)), x |-> x1]
       ELSE new_fallback(x1, name, dpy, h)

\* Context::new once the display is open: font-set resolution, release of the
\* missing-charset list, then the choice of variant.
new_resolve(x, name, dpy, h) ==
  LET x1 == XCreateFontSet(x, dpy, name, h)
      fontset == FontSetReturned(name, h)
      x2 == IF MissingReturned(name) THEN XFreeStringList(x1) ELSE x1
  IN IF fontset # NULL
       THEN [res |-> Ok(FontSet(dpy, fontset)), x |-> x2]
       ELSE new_fallback(x2, name, dpy, h)

\* A constructor that uses a connection that is already open when there is
\* one, instead of opening its own.
new_shared(x, name, d, h) ==
  IF HasNul(name) THEN [res |-> Err("NulError", name), x |-> x]
  ELSE LET dpy == IF x.conns # {} THEN CHOOSE e \in x.conns : TRUE ELSE d
           x1 == IF x.conns # {} THEN x ELSE XOpenDisplay(x, d)
       IN IF dpy = NULL THEN [res |-> Err("DisplayOpen", name), x |-> x1]
          ELSE new_resolve(x1, name, dpy, h)

\* A constructor that converts the name without looking for a NUL.
new_unchecked(x, name, d, h) ==
  LET x1 == XOpenDisplay(x, d)
  IN IF d = NULL THEN [res |-> Err("DisplayOpen", name), x |-> x1]
     ELSE new_resolve(x1, name, d, h)

\* A constructor that opens the display before it converts the name.
new_open_first(x, name, d, h) ==
  LET x1 == XOpenDisplay(x, d)
  IN IF HasNul(name) THEN [res |-> Err("NulError", name), x |-> x1]
     ELSE IF d = NULL THEN [res |-> Err("DisplayOpen", name), x |-> x1]
     ELSE new_resolve(x1, name, d, h)

\* Context::new(name); d is what XOpenDisplay returns and h the handle a
\* successful font resolution returns.
new(x, name, d, h) ==
  IF HasNul(name) THEN [res |-> Err("NulError", name), x |-> x]
  ELSE LET x1 == XOpenDisplay(x, d)
       IN IF d = NULL THEN [res |-> Err("DisplayOpen", name), x |-> x1]
          ELSE new_resolve(x1, name, d, h)

\* A default constructor whose literal lost its last field.
with_misc_short(x, d, h) == new(x, SubSeq(MiscName, 1, Len(MiscName) - 2), d, h)

\* Context::with_misc()
with_misc(x, d, h) == new(x, MiscName, d, h)

\* A teardown that closes the display before it frees the font.
drop_close_first(x, data) ==
  IF data.variant = "FontSet"
    THEN XFreeFontSet(XCloseDisplay(x, data.display), data.display, data.font)
    ELSE XFreeFont(XCloseDisplay(x, data.display), data.display, data.font)

\* A teardown that frees the font and keeps the display open.
drop_font_only(x, data) ==
  IF data.variant = "FontSet"
    THEN XFreeFontSet(x, data.display, data.font)
    ELSE XFreeFont(x, data.display, data.font)

\* impl Drop for Context.
drop(x, data) ==
  IF data.variant = "FontSet"
    THEN XCloseDisplay(XFreeFontSet(x, data.display, data.font), data.display)
    ELSE XCloseDisplay(XFreeFont(x, data.display, data.font), data.display)

\* The length of the buffer, terminator included.
len_with_nul(text) == Len(text) + 1

\* usize as i32 keeps the low 32 bits and reads them as a signed integer.  The
\* usize is hi * 2^16 + lo.
usize_as_i32(hi, lo) ==
  LET top == hi % Limb
  IN IF 2 * top >= Limb THEN (top - Limb) * Limb + lo ELSE top * Limb + lo

\* text.as_bytes().len() as i32
len_as_i32(text) == usize_as_i32(Len(text) \div Limb, Len(text) % Limb)

\* A query that measures the bytes before the first NUL instead of failing.
get_text_width_truncating(x, data, text) ==
  LET cut == IF HasNul(text)
               THEN SubSeq(text, 1, (CHOOSE i \in 1..Len(text) :
                                       text[i] = 0 /\ \A j \in 1..(i - 1) : text[j] # 0) - 1)
               ELSE text
      p == as_ptr(cut)
      n == len_as_i32(cut)
  IN IF data.variant = "FontSet"
       THEN [res |-> Ok(u16_as_u64(rectangle_width(x, data.font, p, n))),
             x |-> XmbTextExtents(x, data.font, n)]
       ELSE [res |-> Ok(i32_as_u64(XTextWidthReturned(x, data.font, p, n))),
             x |-> XTextWidth(x, data.font, n)]

\* A query that releases the font it measured with.
get_text_width_consuming(x, data, text) ==
  IF HasNul(text) THEN [res |-> Err("NulError", text), x |-> x]
  ELSE LET p == as_ptr(text)
           n == len_as_i32(text)
       IN IF data.variant = "FontSet"
            THEN [res |-> Ok(u16_as_u64(rectangle_width(x, data.font, p, n))),
                  x |-> XFreeFontSet(XmbTextExtents(x, data.font, n),
                                     data.display, data.font)]
            ELSE [res |-> Ok(i32_as_u64(XTextWidthReturned(x, data.font, p, n))),
                  x |-> XFreeFont(XTextWidth(x, data.font, n),
                                  data.display, data.font)]

get_text_width(x, data, text) ==
  IF HasNul(text) THEN [res |-> Err("NulError", text), x |-> x]
  ELSE LET p == as_ptr(text)
           n == len_as_i32(text)
       IN IF data.variant = "FontSet"
            THEN [res |-> Ok(u16_as_u64(rectangle_width(x, data.font, p, n))),
                  x |-> XmbTextExtents(x, data.font, n)]
            ELSE [res |-> Ok(i32_as_u64(XTextWidthReturned(x, data.font, p, n))),
                  x |-> XTextWidth(x, data.font, n)]

text_width(x, data, text) == get_text_width(x, data, text)

\* get_text_width on a text too long to write out: run.len.hi * 2^16 +
\* run.len.lo copies of the byte run.byte.  The measuring call reads the first
\* n bytes of it, none when n is not positive.
get_text_width_run(x, data, run) ==
  IF run.byte = 0 /\ (run.hi > 0 \/ run.lo > 0)
    THEN [res |-> Err("NulError", run), x |-> x]
  ELSE LET n == usize_as_i32(run.hi, run.lo)
           p == [i \in 1..(IF n > 0 THEN n ELSE 0) |-> run.byte]
       IN IF data.variant = "FontSet"
            THEN [res |-> Ok(u16_as_u64(rectangle_width(x, data.font, p, n))),
                  x |-> XmbTextExtents(x, data.font, n)]
            ELSE [res |-> Ok(i32_as_u64(XTextWidthReturned(x, data.font, p, n))),
                  x |-> XTextWidth(x, data.font, n)]

\* ------------------------------------------------------------------ state
VARIABLES
  display_ok,   \* whether XOpenDisplay(NULL) can reach a display server
  xs,           \* the Xlib state; xs.log is the call log of the last handler
  ctxs,         \* the caller's Context values, by slot (NoCtx: none)
  last,         \* the last library call: operation, slot, argument, result
  probe,        \* one remembered successful width query of a live context
  xinit_calls,  \* calls of xlib::XInitThreads so far
  SETUP,        \* the Once of the tests' setup(): TRUE once it has run
  mt_requests,  \* calls of setup_multithreading so far
  inflight      \* per thread, the width query it is in the middle of

vars ==
  <<display_ok, xs, ctxs, last, probe, xinit_calls, SETUP, mt_requests, inflight>>

\* A thread that is in no query.
Idle == [pc |-> "idle", slot |-> 0, text |-> <<>>, w |-> 0]

NoProbe == [slot |-> 0, text |-> <<>>, res |-> Ok(U64Zero), since |-> "none"]

NoCall ==
  [op |-> "none", slot |-> 0, arg |-> <<>>, res |-> Ok(<<>>), data |-> NoCtx, up |-> TRUE]

Init ==
  /\ display_ok = TRUE
  /\ xs = [conns |-> {}, fonts |-> {}, lists |-> 0, log |-> <<>>, bad |-> FALSE]
  /\ ctxs = [c \in Slots |-> NoCtx]
  /\ last = NoCall
  /\ probe = NoProbe
  /\ xinit_calls = 0
  /\ SETUP = FALSE
  /\ mt_requests = 0
  /\ inflight = [t \in Threads |-> Idle]

\* Pointers are interchangeable, so an allocation returns the least id not
\* in use, and NULL when there is none.
LeastFree(ids, used) ==
  IF ids \ used = {} THEN NULL
  ELSE CHOOSE m \in ids \ used : \A k \in ids \ used : m <= k

\* What XOpenDisplay returns: NULL when the server is unreachable or has no
\* client slot left.
Opened == IF display_ok THEN LeastFree(DpyIds, xs.conns) ELSE NULL

\* The handle a successful font resolution returns.
Loaded == LeastFree(FontIds, {r.h : r \in xs.fonts})

Entry == [xs EXCEPT !.log = <<>>]

Created(op, c, name, r) ==
  /\ xs' = r.x
  /\ ctxs' = [ctxs EXCEPT ![c] = IF r.res.tag = "Ok" THEN r.res.v ELSE NoCtx]
  /\ last' = [op |-> op, slot |-> c, arg |-> name, res |-> r.res,
              data |-> IF r.res.tag = "Ok" THEN r.res.v ELSE NoCtx,
              up |-> display_ok]
  /\ UNCHANGED <<display_ok, probe, xinit_calls, SETUP, mt_requests, inflight>>

\* let ctx = Context::new(name);
New(c, name) ==
  /\ ctxs[c] = NoCtx
  /\ Created("new", c, name, new(Entry, name, Opened, Loaded))

\* let ctx = Context::with_misc();
WithMisc(c) ==
  /\ ctxs[c] = NoCtx
  /\ Created("with_misc", c, MiscName, with_misc(Entry, Opened, Loaded))

\* drop(ctx), or ctx going out of scope.
Drop(c) ==
  /\ ctxs[c] # NoCtx
  /\ \A t \in Threads : inflight[t].slot # c
  /\ xs' = drop(Entry, ctxs[c])
  /\ ctxs' = [ctxs EXCEPT ![c] = NoCtx]
  /\ last' = [op |-> "drop", slot |-> c, arg |-> <<>>, res |-> Ok(<<>>),
              data |-> ctxs[c], up |-> display_ok]
  /\ probe' = IF probe.slot = c THEN NoProbe ELSE probe
  /\ UNCHANGED <<display_ok, xinit_calls, SETUP, mt_requests, inflight>>

\* The remembered query after a query of slot c for text t with result res:
\* a successful query may be remembered when none is; the first later query
\* of the same context that fails, or measures another text, is noted in it.
Probed(c, t, res) ==
  IF probe = NoProbe
    THEN IF res.tag = "Ok"
           THEN {NoProbe, [slot |-> c, text |-> t, res |-> res, since |-> "none"]}
           ELSE {NoProbe}
  ELSE IF probe.slot # c \/ probe.since # "none" THEN {probe}
  ELSE IF res.tag = "NulError" THEN {[probe EXCEPT !.since = "nul"]}
  ELSE IF t # probe.text THEN {[probe EXCEPT !.since = "other"]}
  ELSE {probe}

Queried(op, c, t, r) ==
  /\ xs' = r.x
  /\ last' = [op |-> op, slot |-> c, arg |-> t, res |-> r.res,
              data |-> ctxs[c], up |-> display_ok]
  /\ probe' \in Probed(c, t, r.res)
  /\ UNCHANGED <<display_ok, ctxs, xinit_calls, SETUP, mt_requests, inflight>>

\* ctx.text_width(text)
TextWidth(c, t) ==
  /\ ctxs[c] # NoCtx
  /\ Queried("text_width", c, t, text_width(Entry, ctxs[c], t))

\* get_text_width(&ctx, text)
GetTextWidth(c, t) ==
  /\ ctxs[c] # NoCtx
  /\ Queried("get_text_width", c, t, get_text_width(Entry, ctxs[c], t))

\* get_text_width(&ctx, text) for a long text.
GetTextWidthRun(c, run) ==
  /\ ctxs[c] # NoCtx
  /\ LET r == get_text_width_run(Entry, ctxs[c], run)
     IN /\ xs' = r.x
        /\ last' = [op |-> "get_text_width", slot |-> c, arg |-> run, res |-> r.res,
                    data |-> ctxs[c], up |-> display_ok]
  /\ UNCHANGED <<display_ok, ctxs, probe, xinit_calls, SETUP, mt_requests, inflight>>

\* One rectangle for all threads: a measuring call overwrites what the calls
\* still waiting to read theirs were told.
reported_to_shared(fl, t, w) ==
  [u \in DOMAIN fl |->
     IF u = t THEN [fl[u] EXCEPT !.pc = "cast", !.w = w]
     ELSE IF fl[u].pc = "cast" THEN [fl[u] EXCEPT !.w = w]
     ELSE fl[u]]

\* get_text_width(&ctx, text) run by a thread, one step at a time.  The thread
\* borrows the context of slot c for the whole query, and the threads that are
\* in a query at the same time share one context.  First step:
\* CString::new(text)?
Begin(t, c, text) ==
  /\ inflight[t] = Idle
  /\ \A u \in Threads : u < t => inflight[u] # Idle
  /\ \A u \in Threads : inflight[u] # Idle => inflight[u].slot = c
  /\ ctxs[c] # NoCtx
  /\ inflight' = [inflight EXCEPT ![t] =
                    [pc |-> IF HasNul(text) THEN "err" ELSE "call",
                     slot |-> c, text |-> text, w |-> 0]]
  /\ UNCHANGED <<display_ok, xs, ctxs, last, probe, xinit_calls, SETUP, mt_requests>>

\* The queries in flight after thread t's measuring call reported w into t's
\* own rectangle (or as its own return value).
reported_to(fl, t, w) == [fl EXCEPT ![t] = [@ EXCEPT !.pc = "cast", !.w = w]]

\* Second step: match ctx.data, and the measuring call of the variant.
CallXlib(t) ==
  /\ inflight[t].pc = "call"
  /\ LET data == ctxs[inflight[t].slot]
         p == as_ptr(inflight[t].text)
         n == len_as_i32(inflight[t].text)
     IN IF data.variant = "FontSet"
          THEN /\ xs' = XmbTextExtents(Entry, data.font, n)
               /\ inflight' = reported_to(inflight, t,
                                          rectangle_width(Entry, data.font, p, n))
          ELSE /\ xs' = XTextWidth(Entry, data.font, n)
               /\ inflight' = reported_to(inflight, t,
                                          XTextWidthReturned(Entry, data.font, p, n))
  /\ UNCHANGED <<display_ok, ctxs, last, probe, xinit_calls, SETUP, mt_requests>>

\* Last step: the cast to u64 and the return, or the return of the NulError.
Return(t) ==
  /\ inflight[t].pc \in {"cast", "err"}
  /\ LET q == inflight[t]
         data == ctxs[q.slot]
         res == IF q.pc = "err" THEN Err("NulError", q.text)
                ELSE IF data.variant = "FontSet" THEN Ok(u16_as_u64(q.w))
                ELSE Ok(i32_as_u64(q.w))
     IN last' = [op |-> "get_text_width", slot |-> q.slot, arg |-> q.text,
                 res |-> res, data |-> data, up |-> display_ok]
  /\ inflight' = [inflight EXCEPT ![t] = Idle]
  /\ UNCHANGED <<display_ok, xs, ctxs, probe, xinit_calls, SETUP, mt_requests>>

\* xlib::XInitThreads()
XInitThreads(n) == n + 1

\* An activation behind a gate: only the first request reaches Xlib.
setup_multithreading_once(n) == IF n > 0 THEN n ELSE XInitThreads(n)

\* setup_multithreading()
setup_multithreading(n) == XInitThreads(n)

SetupMultithreading ==
  /\ mt_requests < MaxSetup
  /\ mt_requests' = mt_requests + 1
  /\ xinit_calls' = setup_multithreading(xinit_calls)
  /\ UNCHANGED <<display_ok, xs, ctxs, last, probe, SETUP, inflight>>

\* test::setup(): SETUP.call_once(|| XInitThreads())
TestSetup ==
  /\ xinit_calls' = IF SETUP THEN xinit_calls ELSE XInitThreads(xinit_calls)
  /\ SETUP' = TRUE
  /\ UNCHANGED <<display_ok, xs, ctxs, last, probe, mt_requests, inflight>>

\* The display server becomes unreachable, or reachable again.
DisplayDown ==
  /\ display_ok
  /\ display_ok' = FALSE
  /\ UNCHANGED <<xs, ctxs, last, probe, xinit_calls, SETUP, mt_requests, inflight>>

DisplayUp ==
  /\ ~display_ok
  /\ display_ok' = TRUE
  /\ UNCHANGED <<xs, ctxs, last, probe, xinit_calls, SETUP, mt_requests, inflight>>

\* The programs that create and discard contexts while the display comes and
\* goes.
Next ==
  \/ \E c \in Slots, name \in Names : New(c, name)
  \/ \E c \in Slots : WithMisc(c)
  \/ \E c \in Slots : Drop(c)
  \/ DisplayDown
  \/ DisplayUp

Spec == Init /\ [][Next]_vars

\* The programs that measure texts with contexts of both variants.
NextWidth ==
  \/ \E c \in Slots, name \in {<<1>>, <<2>>} : New(c, name)
  \/ \E c \in Slots : Drop(c)
  \/ \E c \in Slots, t \in Texts : TextWidth(c, t)
  \/ \E c \in Slots, t \in Texts : GetTextWidth(c, t)

SpecWidth == Init /\ [][NextWidth]_vars

\* The programs that request the multithreading initialisation, from the
\* library and from the tests, around the life of contexts.
NextInit ==
  \/ SetupMultithreading
  \/ TestSetup
  \/ \E c \in Slots, name \in Names : New(c, name)
  \/ \E c \in Slots : WithMisc(c)
  \/ \E c \in Slots : Drop(c)

SpecInit == Init /\ [][NextInit]_vars

\* The programs that measure long texts.
NextLong ==
  \/ \E c \in Slots, name \in {<<1>>, <<2>>} : New(c, name)
  \/ \E c \in Slots : Drop(c)
  \/ \E c \in Slots, run \in RunTexts : GetTextWidthRun(c, run)

SpecLong == Init /\ [][NextLong]_vars

\* The programs of the tests: threads that activate Xlib's locking through
\* setup(), create contexts and query them side by side.
NextConc ==
  \/ TestSetup
  \/ \E c \in Slots, name \in {<<1>>, <<2>>} : New(c, name)
  \/ \E t \in Threads, c \in Slots, text \in ConcTexts : Begin(t, c, text)
  \/ \E t \in Threads : CallXlib(t)
  \/ \E t \in Threads : Return(t)

SpecConc == Init /\ [][NextConc]_vars

\* ------------------------------------------------------------ properties
IsCreate == last.op \in {"new", "with_misc"}
IsQuery == last.op \in {"text_width", "get_text_width"}

Live == {c \in Slots : ctxs[c] # NoCtx}

\* The calls of f in a log, and the display pointers a log's XOpenDisplay
\* calls returned.
CallsOf(log, f) == {i \in DOMAIN log : log[i].f = f}
OpenedBy(log) == {log[i].d : i \in CallsOf(log, "XOpenDisplay")} \ {NULL}

\* The connection and the font a context holds are both live.
Held(data) ==
  /\ data.display \in xs.conns
  /\ FontLive(xs, data.variant, data.font)

\* C1: a failing Context::new leaves no display connection of its own open:
\* a NulError or DisplayOpen failure opened none, and a CouldNotLoadFont
\* failure ends with XCloseDisplay of the connection the call opened.
C1_FailedCreateHoldsNoConnection ==
  (IsCreate /\ last.res.tag # "Ok") =>
    /\ ctxs[last.slot] = NoCtx
    /\ OpenedBy(xs.log) \cap xs.conns = {}
    /\ last.res.tag \in {"NulError", "DisplayOpen"} => OpenedBy(xs.log) = {}
    /\ last.res.tag = "CouldNotLoadFont" =>
         /\ Cardinality(OpenedBy(xs.log)) = 1
         /\ xs.log[Len(xs.log)].f = "XCloseDisplay"
         /\ xs.log[Len(xs.log)].d \in OpenedBy(xs.log)

\* A create that found no font, made while another context is alive.
C1_Witness ==
  /\ IsCreate
  /\ last.res.tag = "CouldNotLoadFont"
  /\ Live # {}

\* C2: after any sequence of creates and discards the open connections are
\* exactly those of the live contexts and the live font resources are as many
\* as the live contexts (so both are none once every context is discarded),
\* and a create of a name the server resolves succeeds whenever the display is
\* reachable.
C2_NoLeak ==
  /\ xs.conns = {ctxs[c].display : c \in Live}
  /\ Cardinality(xs.conns) = Cardinality(Live)
  /\ Cardinality(xs.fonts) = Cardinality(Live)
  /\ (IsCreate /\ last.up /\ last.arg \in FontSetNames \cup XFontNames) =>
       last.res.tag = "Ok"

\* A create that succeeds after the display pointer it gets was released by an
\* earlier discard, while the other slots all hold contexts.
C2_Witness ==
  /\ IsCreate
  /\ last.res.tag = "Ok"
  /\ Live = Slots
  /\ \E c \in Slots : ctxs[c].display > last.data.display

\* C3: for a NUL-free name and an opened display the outcome follows the
\* fallback order: a non-null font set gives the FontSet variant and no
\* single-font attempt; otherwise XLoadQueryFont is called on the same
\* connection and a non-null font gives the XFont variant; otherwise the error
\* is CouldNotLoadFont carrying the name.
C3_FallbackOrder ==
  (IsCreate /\ ~HasNul(last.arg) /\ last.res.tag # "DisplayOpen") =>
    /\ Len(xs.log) >= 2
    /\ xs.log[1].f = "XOpenDisplay" /\ xs.log[1].d # NULL
    /\ xs.log[2].f = "XCreateFontSet" /\ xs.log[2].d = xs.log[1].d
    /\ LET dpy == xs.log[1].d
           fontset == xs.log[2].h
           loads == CallsOf(xs.log, "XLoadQueryFont")
       IN IF fontset # NULL
            THEN /\ last.res = Ok(FontSet(dpy, fontset))
                 /\ loads = {}
            ELSE /\ Cardinality(loads) = 1
                 /\ \A i \in loads :
                      /\ i > 2
                      /\ xs.log[i].d = dpy
                      /\ IF xs.log[i].h # NULL
                           THEN last.res = Ok(XFont(dpy, xs.log[i].h))
                           ELSE last.res = Err("CouldNotLoadFont", last.arg)

\* A create that fell back to the single font.
C3_Witness ==
  /\ IsCreate
  /\ last.res.tag = "Ok"
  /\ last.data.variant = "XFont"

\* C4: a discard makes exactly two calls, in this order: the release of the
\* font of the held variant (XFreeFontSet or XFreeFont), then XCloseDisplay of
\* the held connection; no font is released on a closed connection.
C4_TeardownOrder ==
  last.op = "drop" =>
    /\ xs.log = <<Call(IF last.data.variant = "FontSet" THEN "XFreeFontSet" ELSE "XFreeFont",
                       last.data.display, last.data.font, 0),
                  Call("XCloseDisplay", last.data.display, NULL, 0)>>
    /\ ~xs.bad
    /\ last.data.display \notin xs.conns
    /\ FontOf(xs, last.data.variant, last.data.font) = {}

\* A discard of a single-font context while another context stays alive.
C4_Witness ==
  /\ last.op = "drop"
  /\ last.data.variant = "XFont"
  /\ Live # {}

\* C5: a create whose name holds a NUL fails with NulError and makes no Xlib
\* call at all, whether or not the display is reachable.
C5_NulNameTouchesNothing ==
  (IsCreate /\ HasNul(last.arg)) =>
    /\ last.res = Err("NulError", last.arg)
    /\ xs.log = <<>>
    /\ ctxs[last.slot] = NoCtx

\* A create with a NUL in the name, made while the display is unreachable.
C5_Witness ==
  /\ IsCreate
  /\ HasNul(last.arg)
  /\ ~last.up

\* C6 as stated: every create opens exactly one display connection, whatever
\* the name and the outcome.
C6_AlwaysOneConnection ==
  IsCreate => Cardinality(OpenedBy(xs.log)) = 1

\* C6 amended: a create calls XOpenDisplay once when the name is NUL-free and
\* not at all otherwise; it opens a connection exactly when it does not fail
\* with NulError or DisplayOpen, and never more than one; on success the
\* opened connection is the one the returned context holds.
C6_AtMostOneConnection ==
  IsCreate =>
    /\ Cardinality(CallsOf(xs.log, "XOpenDisplay")) = IF HasNul(last.arg) THEN 0 ELSE 1
    /\ Cardinality(OpenedBy(xs.log)) =
         IF last.res.tag \in {"NulError", "DisplayOpen"} THEN 0 ELSE 1
    /\ last.res.tag = "Ok" =>
         /\ OpenedBy(xs.log) = {ctxs[last.slot].display}
         /\ ctxs[last.slot].display \in xs.conns

\* A create that fails with DisplayOpen: XOpenDisplay was called and nothing
\* was opened.
C6_Witness ==
  /\ IsCreate
  /\ last.res.tag = "DisplayOpen"
  /\ Cardinality(CallsOf(xs.log, "XOpenDisplay")) = 1

\* C7: a width query whose text holds a NUL fails with NulError without a
\* measuring call and leaves the context as it was, its connection and font
\* live; and a valid query made after such a failure returns what the same
\* query returned before it.
C7_NulTextLeavesContext ==
  /\ (IsQuery /\ HasNul(last.arg)) =>
       /\ last.res = Err("NulError", last.arg)
       /\ xs.log = <<>>
       /\ ctxs[last.slot] = last.data
       /\ Held(ctxs[last.slot])
  /\ (IsQuery /\ probe.since = "nul" /\ probe.slot = last.slot
        /\ probe.text = last.arg) =>
       last.res = probe.res

\* A valid query repeated on a context after a query of it failed on a NUL.
C7_Witness ==
  /\ IsQuery
  /\ probe.since = "nul"
  /\ probe.slot = last.slot
  /\ probe.text = last.arg
  /\ last.res.tag = "Ok"

\* C8: in both variants the width of the empty text is Ok(0).
C8_EmptyTextIsZero ==
  (IsQuery /\ last.arg = <<>>) => last.res = Ok(U64Zero)

\* A query of the empty text on a font-set context, while a single-font
\* context has answered the same query before.
C8_Witness ==
  /\ IsQuery
  /\ last.arg = <<>>
  /\ last.data.variant = "FontSet"
  /\ probe.slot \in Live
  /\ probe.slot # last.slot
  /\ probe.text = <<>>
  /\ ctxs[probe.slot].variant = "XFont"

\* C9: a width query returns what an earlier query of the same text on the
\* same context returned, whatever was queried in between, and no query
\* changes the context or releases what it holds.
C9_QueryIdempotentReadOnly ==
  IsQuery =>
    /\ ctxs[last.slot] = last.data
    /\ Held(ctxs[last.slot])
    /\ ~xs.bad
    /\ (probe.slot = last.slot /\ probe.text = last.arg) => last.res = probe.res

\* A query repeated on a context after a query of another text.
C9_Witness ==
  /\ IsQuery
  /\ probe.since = "other"
  /\ probe.slot = last.slot
  /\ probe.text = last.arg
  /\ last.res.tag = "Ok"

C11_WithMiscIsNewOfLiteral ==
  [][\A c \in Slots :
       WithMisc(c) =>
         LET r == new(Entry, MiscName, Opened, Loaded)
         IN /\ xs' = r.x
            /\ last'.res = r.res
            /\ last'.arg = MiscName
            /\ ctxs'[c] = IF r.res.tag = "Ok" THEN r.res.v ELSE NoCtx]_vars

\* A with_misc() that fails because the display is unreachable, made while a
\* font-set context is alive.
C11_Witness ==
  /\ last.op = "with_misc"
  /\ last.res.tag = "DisplayOpen"
  /\ \E c \in Live : ctxs[c].variant = "FontSet"

\* A context is complete: one of the two variants, with an open connection
\* and a live font of that variant loaded on that connection.
Complete(data) ==
  /\ data.variant \in {"FontSet", "XFont"}
  /\ data.display \in xs.conns
  /\ Cardinality(FontOf(xs, data.variant, data.font)) = 1
  /\ \A r \in FontOf(xs, data.variant, data.font) : r.dpy = data.display

\* C12: every existing context is complete in every reachable state; a
\* context changes only by being discarded, which releases its font and its
\* connection, and a context appears in a slot only as the result of a
\* successful create.
C12_ContextStateMachine ==
  /\ [](\A c \in Live : Complete(ctxs[c]))
  /\ [][\A c \in Slots :
          /\ ctxs[c] # NoCtx => ctxs'[c] \in {ctxs[c], NoCtx}
          /\ (ctxs[c] # NoCtx /\ ctxs'[c] = NoCtx) =>
               /\ last'.op = "drop" /\ last'.slot = c /\ last'.data = ctxs[c]
               /\ ctxs[c].display \notin xs'.conns
               /\ FontOf(xs', ctxs[c].variant, ctxs[c].font) = {}
          /\ (ctxs[c] = NoCtx /\ ctxs'[c] # NoCtx) =>
               /\ last'.op \in {"new", "with_misc"} /\ last'.slot = c
               /\ last'.res = Ok(ctxs'[c])]_vars

\* A query answered while every slot holds a context and both variants exist.
C12_Witness ==
  /\ IsQuery
  /\ Live = Slots
  /\ \E c \in Slots : ctxs[c].variant = "FontSet"
  /\ \E c \in Slots : ctxs[c].variant = "XFont"

\* The calls of a log that release something.
Releases(log) ==
  {i \in DOMAIN log : log[i].f \in {"XCloseDisplay", "XFreeFontSet", "XFreeFont"}}

\* C13: two contexts alive at the same time hold different connections and
\* different fonts, each live; a discard or a failing create releases nothing
\* of a context that stays alive, and a step changes no context but the one
\* it is about, whose font resources stay as they were.
C13_ExclusiveOwnership ==
  /\ [](/\ \A c1, c2 \in Live :
             c1 # c2 => /\ ctxs[c1].display # ctxs[c2].display
                        /\ ctxs[c1].font # ctxs[c2].font
        /\ \A c \in Live : Held(ctxs[c])
        /\ \A i \in Releases(xs.log), c \in Live :
             /\ xs.log[i].d # ctxs[c].display
             /\ xs.log[i].h # ctxs[c].font)
  /\ [][\A c \in Slots :
          /\ ctxs'[c] # ctxs[c] => last'.slot = c
          /\ (ctxs[c] # NoCtx /\ ctxs'[c] = ctxs[c]) =>
               FontOf(xs', ctxs[c].variant, ctxs[c].font)
                 = FontOf(xs, ctxs[c].variant, ctxs[c].font)]_vars

\* A discard of a font-set context while another font-set context stays.
C13_Witness ==
  /\ last.op = "drop"
  /\ last.data.variant = "FontSet"
  /\ \E c \in Live : ctxs[c].variant = "FontSet"

\* C14: a create that reached XCreateFontSet releases the missing-charset
\* list exactly once, right after that call, when a list was reported, and
\* makes no release when none was; no list is ever left unreleased; a
\* reported list does not keep a resolved font set from being returned, and
\* without a font set the single-font attempt alone decides the outcome.
C14_MissingListReleased ==
  /\ xs.lists = 0
  /\ (IsCreate /\ ~HasNul(last.arg) /\ last.res.tag # "DisplayOpen") =>
       /\ Len(xs.log) >= 2
       /\ xs.log[2].f = "XCreateFontSet"
       /\ CallsOf(xs.log, "XFreeStringList") =
            IF MissingReturned(last.arg) THEN {3} ELSE {}
       /\ ~xs.bad
       /\ (MissingReturned(last.arg) /\ xs.log[2].h # NULL) =>
            /\ last.res = Ok(FontSet(xs.log[1].d, xs.log[2].h))
            /\ CallsOf(xs.log, "XLoadQueryFont") = {}
       /\ (MissingReturned(last.arg) /\ xs.log[2].h = NULL) =>
            \E i \in CallsOf(xs.log, "XLoadQueryFont") :
              /\ i > 3
              /\ last.res.tag = IF xs.log[i].h # NULL THEN "Ok" ELSE "CouldNotLoadFont"

\* A create that got a font set together with a missing-charset list.
C14_Witness ==
  /\ IsCreate
  /\ MissingReturned(last.arg)
  /\ last.res.tag = "Ok"
  /\ last.data.variant = "FontSet"
  /\ Cardinality(CallsOf(xs.log, "XFreeStringList")) = 1

\* The measuring calls of a log.
Measurings(log) ==
  CallsOf(log, "XmbTextExtents") \cup CallsOf(log, "XTextWidth")

\* C15 as stated: in both variants the length given to the measuring call is
\* the byte length of the text, whatever that length is.
C15_LengthIsByteLength ==
  (IsQuery /\ last.res.tag = "Ok") =>
    /\ Cardinality(Measurings(xs.log)) = 1
    /\ \A i \in Measurings(xs.log) :
         /\ xs.log[i].n >= 0
         /\ xs.log[i].n \div Limb = last.arg.hi
         /\ xs.log[i].n % Limb = last.arg.lo

\* C17 as stated: the u64 of a successful query is the number the measuring
\* call reported, so at most 2^31-1 for an XFont context and at most 2^16-1
\* for a FontSet context, whatever the call reported.
C17_WidthIsReportedWidth ==
  (IsQuery /\ last.res.tag = "Ok") =>
    LET v == last.res.v
        p == as_ptr(last.arg)
        n == Len(last.arg)
    IN IF last.data.variant = "XFont"
         THEN LET w == XTextWidthReturned(xs, last.data.font, p, n)
              IN /\ v[3] = 0 /\ v[4] = 0 /\ 2 * v[2] < Limb
                 /\ w >= 0 /\ v[1] = w % Limb /\ v[2] = w \div Limb
         ELSE LET w == rectangle_width(xs, last.data.font, p, n)
              IN v = <<w, 0, 0, 0>>

\* C16: with XInitThreads called, a query that returns while other queries
\* are in flight returns what get_text_width returns for its context and text
\* when run alone, and no step of a query changes a context or the resources
\* of Xlib.
C16_ConcurrentQueriesIndependent ==
  [][\A t \in Threads :
       (inflight'[t] # inflight[t]) =>
         /\ ctxs' = ctxs
         /\ xs'.conns = xs.conns /\ xs'.fonts = xs.fonts /\ ~xs'.bad
         /\ (xinit_calls > 0 /\ inflight[t].pc \in {"cast", "err"}) =>
              /\ last'.op = "get_text_width"
              /\ last'.slot = inflight[t].slot
              /\ last'.arg = inflight[t].text
              /\ last'.res = get_text_width(Entry, ctxs[inflight[t].slot],
                                            inflight[t].text).res]_vars

\* A query returned on a context while two more queries of it for different
\* texts had both made their measuring calls.
C16_Witness ==
  /\ xinit_calls > 0
  /\ last.op = "get_text_width" /\ last.res.tag = "Ok"
  /\ \E t, u \in Threads :
       /\ inflight[t].pc = "cast" /\ inflight[u].pc = "cast"
       /\ inflight[t].slot = last.slot /\ inflight[u].slot = last.slot
       /\ inflight[t].w # inflight[u].w

====
